---- MODULE Spec2Model ----
(***************************************************************************)
(* DataScribe: the CSV -> PDF report pipeline of predict.py and the        *)
(* Streamlit caller of frontend.py that runs it as a subprocess.           *)
(*                                                                         *)
(* A dataset is the DataFrame pd.read_csv returns: a row count and an      *)
(* ordered sequence of columns, each with a dtype and one cell per row.    *)
(* A column is identified by its position (read_csv makes the labels       *)
(* unique).  Cells are naturals; NaN is the missing-value sentinel.        *)
(* A page is what one pdf.savefig call appends: its kind and the columns   *)
(* drawn on it.                                                            *)
(***************************************************************************)
EXTENDS Integers, Sequences, FiniteSets, TLC

\* ------------------------------------------------------------------ bounds
MaxCols == 13      \* widest dataset drawn (one more than the largest column limit)
NRows   == 22      \* rows of a non-empty dataset (room for 21 distinct values)

\* ------------------------------------------------------- program constants
DefaultMaxUnique  == 20    \* detect_categoricals(max_unique=20)
StatsHead         == 12    \* desc.head(12)
SampleMeans       == 8     \* list(means.items())[:8]
HistMaxCols       == 12    \* plot_histograms(max_cols=12)
CatBarMaxCols     == 8     \* plot_categorical_bars(max_cols=8)
BoxMaxCols        == 8     \* plot_boxplots(max_cols=8)
ViolinMaxCols     == 6     \* plot_violinplots(max_cols=6)
DensityMaxCols    == 8     \* plot_density_plots(max_cols=8)
ScatterMaxCols    == 5     \* plot_scatter_matrix(max_cols=5)
LineMaxCols       == 6     \* plot_line_charts(max_cols=6)
PieMaxCols        == 4     \* plot_pie_charts(max_cols=4)

NaN == 0           \* the missing cell (pandas NaN); present cells are >= 1

VARIABLES
  df,         \* the loaded DataFrame (NoDf before load_csv_to_df returns)
  desc,       \* the statistics table of compute_basic_stats
  pc,         \* the statement analyze_to_pdf / main is at
  todo,       \* the pages the running generator has still to render (its loop)
  fig,        \* number of matplotlib figures open (created, not yet plt.close'd)
  pages,      \* the pages appended to the PdfPages sink so far, in order
  outFile,    \* the file at out_pdf: "absent", "open" (being written), "finalized"
  exc,        \* TRUE while an exception propagates / after it ended the process
  exitCode,   \* exit status of the predict.py process; Running while it runs
  ui,         \* the statement frontend.py is at
  returncode, \* result.returncode as seen by frontend.py
  pdf_bytes   \* what frontend.py read from out_path (NoBytes until read)

vars == <<df, desc, pc, todo, fig, pages, outFile, exc, exitCode, ui, returncode, pdf_bytes>>

Running == 0 - 1
NoBytes == <<[kind |-> "none", cols |-> <<>>]>>
NoDf    == [rows |-> 0, cols |-> <<>>]

\* ------------------------------------------------------------ small helpers
Min(a, b) == IF a <= b THEN a ELSE b

\* s[:k]
Take(s, k) == SubSeq(s, 1, Min(k, Len(s)))

\* df.columns, as positions
Columns(d) == [i \in 1..Len(d.cols) |-> i]

\* ----------------------------------------------------------- the DataFrame
\* One column as read_csv infers it: `miss` leading missing cells, the rest
\* cycling through `nd` distinct values.
MkCol(dtype, nd, miss, R) ==
  [dtype |-> dtype,
   vals  |-> [i \in 1..R |-> IF i <= miss THEN NaN ELSE ((i - miss - 1) % nd) + 1]]

\* The column shapes drawn.  read_csv gives int64 and bool only to columns
\* without missing cells, float64 to a column of missing cells only, object to text.
ColumnKinds(R) ==
  { MkCol("int64",   2,  0, R),      \* low-cardinality integers
    MkCol("float64", 20, 1, R),      \* exactly 20 distinct values, 1 missing
    MkCol("float64", 21, 1, R),      \* 21 distinct values, 1 missing
    MkCol("float64", 1,  1, R),      \* a constant, 1 missing
    MkCol("float64", 0,  R, R),      \* every cell missing
    MkCol("object",  3,  2, R),      \* text, 3 labels, 2 missing
    MkCol("object",  21, 0, R),      \* text, 21 labels
    MkCol("bool",    2,  0, R) }     \* booleans

\* The datasets read_csv can return here: n columns of one shape with at most
\* one column of another shape among them, or a header-only file (zero rows,
\* every column object).
Datasets ==
  { [rows |-> NRows,
     cols |-> [i \in 1..n |-> IF i = p THEN kb ELSE ka]] :
       <<n, p, ka, kb>> \in
         { t \in (1..MaxCols) \X (0..MaxCols) \X ColumnKinds(NRows) \X ColumnKinds(NRows) :
             /\ t[2] <= t[1]
             /\ t[3] # t[4] } }
  \cup
  { [rows |-> 0, cols |-> [i \in 1..n |-> MkCol("object", 1, 0, 0)]] : n \in 1..MaxCols }

\* df[col].isna().sum()
isna_sum(col) == Cardinality({i \in DOMAIN col.vals : col.vals[i] = NaN})

\* Variant: missing cells counted as a value of their own (dropna=False).
nunique_keepna(col) == Cardinality({col.vals[i] : i \in DOMAIN col.vals})

\* df[col].nunique(dropna=True)
nunique(col) == Cardinality({col.vals[i] : i \in DOMAIN col.vals} \ {NaN})

\* df[col].dropna()
dropna(col) == SelectSeq(col.vals, LAMBDA v : v # NaN)

\* dtype is a numpy number (select_dtypes(include=[np.number])): bool and object are not
is_number(col) == col.dtype \in {"int64", "float64"}

\* df.select_dtypes(include=[np.number]).columns.tolist()
select_dtypes_number(d) == SelectSeq(Columns(d), LAMBDA i : is_number(d.cols[i]))

\* ------------------------------------------------------- column classifier
\* The for loop of detect_categoricals from column i on, cats accumulated so far.
RECURSIVE detect_categoricals_loop(_, _, _, _)
detect_categoricals_loop(d, max_unique, i, cats) ==
  IF i > Len(d.cols) THEN cats
  ELSE IF d.cols[i].dtype = "object"
       THEN detect_categoricals_loop(d, max_unique, i + 1, Append(cats, i))
       ELSE IF nunique(d.cols[i]) <= max_unique
            THEN detect_categoricals_loop(d, max_unique, i + 1, Append(cats, i))
            ELSE detect_categoricals_loop(d, max_unique, i + 1, cats)

\* Variant: only text columns are listed (the distinct-value branch is lost).
detect_categoricals_textonly(d, max_unique) ==
  SelectSeq(Columns(d), LAMBDA i : d.cols[i].dtype = "object")

detect_categoricals(d, max_unique) == detect_categoricals_loop(d, max_unique, 1, <<>>)

\* ------------------------------------------------------- statistics engine
\* df.describe(include=[np.number]) concatenates one description per selected
\* column and raises ValueError (no objects to concatenate) when none is selected.
describe_raises(d) == select_dtypes_number(d) = <<>>

\* One row per described column: its label, describe's count, and the missing
\* column added from df[desc.index].isna().sum().
compute_basic_stats(d) ==
  LET index == select_dtypes_number(d)
  IN  [r \in 1..Len(index) |->
         [col     |-> index[r],
          count   |-> Len(dropna(d.cols[index[r]])),
          missing |-> isna_sum(d.cols[index[r]])]]

\* desc.empty
desc_empty(t) == Len(t) = 0

\* ------------------------------------------------------------------- pages
Page(kind, cols) == [kind |-> kind, cols |-> cols]

\* The columns whose mean summary_text prints: desc['mean'].dropna(), first 8.
\* A column's mean is NaN exactly when it has no present cell.
summary_text(d, t) ==
  IF desc_empty(t) THEN <<>>
  ELSE LET means == SelectSeq(t, LAMBDA r : r.count > 0)
       IN  [k \in 1..Min(SampleMeans, Len(means)) |-> means[k].col]

\* add_text_page: always one page
add_text_page(kind, cols) == <<Page(kind, cols)>>

\* Variant: the page shows the whole table (no head(12)).
save_stats_table_all_rows(t) ==
  IF desc_empty(t) THEN <<>>
  ELSE <<Page("StatsTable", [r \in 1..Len(t) |-> t[r].col])>>

\* save_stats_table: nothing for an empty table, else one page of desc.head(12)
save_stats_table(t) ==
  IF desc_empty(t) THEN <<>>
  ELSE LET display_df == Take(t, StatsHead)
       IN  <<Page("StatsTable", [r \in 1..Len(display_df) |-> display_df[r].col])>>

\* df.isna().sum().sort_values(ascending=False): the columns by missing count,
\* largest first, equal counts in column order.
RECURSIVE sort_values_desc(_, _, _)
sort_values_desc(d, rest, acc) ==
  IF rest = <<>> THEN acc
  ELSE LET c == Head(rest)
           k == Cardinality({j \in 1..Len(acc) :
                               isna_sum(d.cols[acc[j]]) >= isna_sum(d.cols[c])})
       IN  sort_values_desc(d, Tail(rest),
                            SubSeq(acc, 1, k) \o <<c>> \o SubSeq(acc, k + 1, Len(acc)))

plot_missingness(d) == <<Page("Missingness", sort_values_desc(d, Columns(d), <<>>))>>

\* One page per column of sel, in order.
PerColumn(kind, sel) == [k \in 1..Len(sel) |-> Page(kind, <<sel[k]>>)]

plot_histograms(d) ==
  PerColumn("Histogram", Take(select_dtypes_number(d), HistMaxCols))

plot_categorical_bars(d) ==
  PerColumn("CategoricalBar", Take(detect_categoricals(d, DefaultMaxUnique), CatBarMaxCols))

plot_correlation_heatmap(d) ==
  LET num_df == select_dtypes_number(d)
  IN  IF Len(num_df) < 2 THEN <<>> ELSE <<Page("CorrelationHeatmap", num_df)>>

plot_boxplots(d) ==
  PerColumn("BoxPlot", Take(select_dtypes_number(d), BoxMaxCols))

plot_violinplots(d) ==
  PerColumn("ViolinPlot", Take(select_dtypes_number(d), ViolinMaxCols))

\* The columns plot_density_plots loops over; the loop skips those without data.
plot_density_plots(d) ==
  PerColumn("DensityPlot", Take(select_dtypes_number(d), DensityMaxCols))

plot_scatter_matrix(d) ==
  LET num_cols == Take(select_dtypes_number(d), ScatterMaxCols)
  IN  IF Len(num_cols) > 1 THEN <<Page("ScatterMatrix", num_cols)>> ELSE <<>>

plot_line_charts(d) ==
  LET num_cols == Take(select_dtypes_number(d), LineMaxCols)
  IN  IF num_cols # <<>> THEN <<Page("LineChart", num_cols)>> ELSE <<>>

plot_pie_charts(d) ==
  PerColumn("PieChart", Take(detect_categoricals(d, DefaultMaxUnique), PieMaxCols))

\* Variant: the loop never skips a column.
density_never_skips(d, page) == FALSE

\* `if data.empty: continue` of plot_density_plots
density_skips(d, page) ==
  /\ page.kind = "DensityPlot"
  /\ dropna(d.cols[page.cols[1]]) = <<>>

\* The drawing calls that raise on the data they are given:
\*  - ax.violinplot of an empty sequence (minimum of a zero-size array);
\*  - scatter_matrix(diagonal="kde") of a column with no present cell (minimum of
\*    a zero-size array) or with fewer than two distinct values (singular
\*    covariance in the kernel density estimate).
draw_raises(d, page) ==
  \/ /\ page.kind = "ViolinPlot"
     /\ dropna(d.cols[page.cols[1]]) = <<>>
  \/ /\ page.kind = "ScatterMatrix"
     /\ \E k \in 1..Len(page.cols) : nunique(d.cols[page.cols[k]]) < 2

\* ------------------------------------------------------------ orchestrator
\* The statements of the with block of analyze_to_pdf, in order.
Stages ==
  << "summary", "save_stats_table", "plot_missingness", "plot_histograms",
     "plot_categorical_bars", "plot_correlation_heatmap", "plot_boxplots",
     "plot_violinplots", "plot_density_plots", "plot_scatter_matrix",
     "plot_line_charts", "plot_pie_charts", "notes" >>

StageIndex(s) == CHOOSE k \in 1..Len(Stages) : Stages[k] = s

\* Variant: plot_categorical_bars is called before plot_histograms.
StageAfter_swapped(s) ==
  LET order == [k \in 1..Len(Stages) |->
                  IF k = 4 THEN Stages[5] ELSE IF k = 5 THEN Stages[4] ELSE Stages[k]]
      at    == CHOOSE k \in 1..Len(order) : order[k] = s
  IN  IF at = Len(order) THEN "with_exit" ELSE order[at + 1]

\* The statement that follows stage s ("with_exit": the end of the with block).
StageAfter(s) ==
  IF StageIndex(s) = Len(Stages) THEN "with_exit" ELSE Stages[StageIndex(s) + 1]

\* What the call made at stage s has to render.
StagePages(s, d, t) ==
  CASE s = "summary"                  -> add_text_page("Summary", summary_text(d, t))
    [] s = "save_stats_table"         -> save_stats_table(t)
    [] s = "plot_missingness"         -> plot_missingness(d)
    [] s = "plot_histograms"          -> plot_histograms(d)
    [] s = "plot_categorical_bars"    -> plot_categorical_bars(d)
    [] s = "plot_correlation_heatmap" -> plot_correlation_heatmap(d)
    [] s = "plot_boxplots"            -> plot_boxplots(d)
    [] s = "plot_violinplots"         -> plot_violinplots(d)
    [] s = "plot_density_plots"       -> plot_density_plots(d)
    [] s = "plot_scatter_matrix"      -> plot_scatter_matrix(d)
    [] s = "plot_line_charts"         -> plot_line_charts(d)
    [] s = "plot_pie_charts"          -> plot_pie_charts(d)
    [] s = "notes"                    -> add_text_page("Notes", <<>>)
    [] OTHER                          -> <<>>

InStage == pc \in {Stages[k] : k \in 1..Len(Stages)}

Init ==
  /\ df = NoDf
  /\ desc = <<>>
  /\ pc = "load_csv_to_df"
  /\ todo = <<>>
  /\ fig = 0
  /\ pages = <<>>
  /\ outFile = "absent"
  /\ exc = FALSE
  /\ exitCode = Running
  /\ ui = "subprocess_run"
  /\ returncode = Running
  /\ pdf_bytes = NoBytes

UIUnchanged == UNCHANGED <<ui, returncode, pdf_bytes>>

\* df = load_csv_to_df(csv_path): the parsed dataset, or a parse error
load_csv_to_df ==
  /\ pc = "load_csv_to_df"
  /\ \/ /\ \E d \in Datasets : df' = d
        /\ pc' = "compute_basic_stats"
        /\ exc' = exc
     \/ /\ df' = df
        /\ pc' = "exit"
        /\ exc' = TRUE
  /\ UNCHANGED <<desc, todo, fig, pages, outFile, exitCode>>
  /\ UIUnchanged

\* desc = compute_basic_stats(df)
compute_basic_stats_call ==
  /\ pc = "compute_basic_stats"
  /\ IF describe_raises(df)
     THEN /\ exc' = TRUE
          /\ pc' = "exit"
          /\ desc' = desc
     ELSE /\ exc' = exc
          /\ pc' = "with_enter"
          /\ desc' = compute_basic_stats(df)
  /\ UNCHANGED <<df, todo, fig, pages, outFile, exitCode>>
  /\ UIUnchanged

\* with PdfPages(out_pdf) as pdf: the sink is opened and the first call begins
PdfPages_enter ==
  /\ pc = "with_enter"
  /\ outFile' = "open"
  /\ pc' = Stages[1]
  /\ todo' = StagePages(Stages[1], df, desc)
  /\ UNCHANGED <<df, desc, fig, pages, exc, exitCode>>
  /\ UIUnchanged

\* plt.subplots (or scatter_matrix's own figure) and the drawing calls on it.
\* A drawing call that raises leaves the with block with the figure still open.
Draw ==
  /\ InStage
  /\ todo # <<>>
  /\ fig = 0
  /\ ~density_skips(df, Head(todo))
  /\ fig' = fig + 1
  /\ IF draw_raises(df, Head(todo))
     THEN /\ exc' = TRUE
          /\ pc' = "with_exit"
     ELSE /\ exc' = exc
          /\ pc' = pc
  /\ UNCHANGED <<df, desc, todo, pages, outFile, exitCode>>
  /\ UIUnchanged

\* pdf.savefig(fig); plt.close(fig)
SaveAndClose ==
  /\ InStage
  /\ todo # <<>>
  /\ fig = 1
  /\ pages' = Append(pages, Head(todo))
  /\ fig' = fig - 1
  /\ todo' = Tail(todo)
  /\ UNCHANGED <<df, desc, pc, outFile, exc, exitCode>>
  /\ UIUnchanged

\* if data.empty: continue
DensityContinue ==
  /\ InStage
  /\ todo # <<>>
  /\ fig = 0
  /\ density_skips(df, Head(todo))
  /\ todo' = Tail(todo)
  /\ UNCHANGED <<df, desc, pc, fig, pages, outFile, exc, exitCode>>
  /\ UIUnchanged

\* The call returns and analyze_to_pdf makes the next one.
Return ==
  /\ InStage
  /\ todo = <<>>
  /\ pc' = StageAfter(pc)
  /\ todo' = StagePages(StageAfter(pc), df, desc)
  /\ UNCHANGED <<df, desc, fig, pages, outFile, exc, exitCode>>
  /\ UIUnchanged

\* PdfPages.__exit__: close() finalizes the file, with or without an exception
PdfPages_exit ==
  /\ pc = "with_exit"
  /\ outFile' = "finalized"
  /\ pc' = "exit"
  /\ todo' = <<>>
  /\ UNCHANGED <<df, desc, fig, pages, exc, exitCode>>
  /\ UIUnchanged

\* Variant: the exception is swallowed and the status is always 0.
main_status0 ==
  /\ pc = "exit"
  /\ exitCode' = 0
  /\ pc' = "exited"
  /\ UNCHANGED <<df, desc, todo, fig, pages, outFile, exc>>
  /\ UNCHANGED <<ui, returncode, pdf_bytes>>

\* main returns (status 0) or the uncaught exception ends the interpreter (status 1)
main ==
  /\ pc = "exit"
  /\ exitCode' = IF exc THEN 1 ELSE 0
  /\ pc' = "exited"
  /\ UNCHANGED <<df, desc, todo, fig, pages, outFile, exc>>
  /\ UIUnchanged

PipelineUnchanged == UNCHANGED <<df, desc, pc, todo, fig, pages, outFile, exc, exitCode>>

\* result = subprocess.run(cmd, capture_output=True, text=True): blocks until exit
subprocess_run ==
  /\ ui = "subprocess_run"
  /\ pc = "exited"
  /\ returncode' = exitCode
  /\ ui' = "check"
  /\ pdf_bytes' = pdf_bytes
  /\ PipelineUnchanged

\* Variant: only the existence of the file is checked, not the status.
check_result_ignoring_status ==
  /\ ui = "check"
  /\ ui' = IF outFile = "absent" THEN "stopped" ELSE "success"
  /\ UNCHANGED <<returncode, pdf_bytes>>
  /\ UNCHANGED <<df, desc, pc, todo, fig, pages, outFile, exc, exitCode>>

\* the if / elif / else on result.returncode and out_path.exists()
check_result ==
  /\ ui = "check"
  /\ ui' = IF returncode # 0 THEN "stopped"
           ELSE IF outFile = "absent" THEN "stopped"
           ELSE "success"
  /\ UNCHANGED <<returncode, pdf_bytes>>
  /\ PipelineUnchanged

\* pdf_bytes = out_path.read_bytes(); st.download_button(...)
download ==
  /\ ui = "success"
  /\ pdf_bytes' = pages
  /\ ui' = "download_button"
  /\ returncode' = returncode
  /\ PipelineUnchanged

Next ==
  \/ load_csv_to_df
  \/ compute_basic_stats_call
  \/ PdfPages_enter
  \/ Draw
  \/ SaveAndClose
  \/ DensityContinue
  \/ Return
  \/ PdfPages_exit
  \/ main
  \/ subprocess_run
  \/ check_result
  \/ download

Spec == Init /\ [][Next]_vars

\* ======================================================================
\* Properties
\* ======================================================================

\* Definitions the properties use; they restate the source's notions from the
\* dataset itself, independently of the operators above.
Loaded     == df # NoDf
AllCols    == 1..Len(df.cols)
NumSet     == {i \in AllCols : df.cols[i].dtype = "int64" \/ df.cols[i].dtype = "float64"}
Present(i) == {r \in 1..df.rows : df.cols[i].vals[r] # NaN}
\* distinct non-missing values of column i, counted by first occurrences
Distinct(i) ==
  LET v == df.cols[i].vals
  IN  Cardinality({r \in 1..df.rows :
                     v[r] # NaN /\ \A q \in 1..(r - 1) : v[q] # v[r]})
CatSetFor(m) == {i \in AllCols : df.cols[i].dtype = "object" \/ Distinct(i) <= m}
CatSet     == CatSetFor(20)
NN         == Cardinality(NumSet)
CC         == Cardinality(CatSet)
\* the k-th column of a set of columns, in column order
Nth(S, k)  == CHOOSE x \in S : Cardinality({y \in S : y < x}) = k - 1
\* the first k columns of S, in column order, one per entry
FirstOf(S, k) == [j \in 1..Min(k, Cardinality(S)) |-> Nth(S, j)]
SetOf(s)   == {s[k] : k \in 1..Len(s)}
Increasing(s) == \A k \in 1..(Len(s) - 1) : s[k] < s[k + 1]
OfKind(kind) == SelectSeq(pages, LAMBDA pg : pg.kind = kind)
CountOf(kind) == Len(OfKind(kind))
ColsOfKind(kind) == [k \in 1..CountOf(kind) |-> OfKind(kind)[k].cols[1]]
Finished   == pc = "exited"
\* the generator at pc has rendered everything it had to and is about to return
Returning  == InStage /\ todo = <<>>

\* Position of a page kind in the fixed order of the report.
KindRank(kind) ==
  CASE kind = "Summary"            -> 1
    [] kind = "StatsTable"         -> 2
    [] kind = "Missingness"        -> 3
    [] kind = "Histogram"          -> 4
    [] kind = "CategoricalBar"     -> 5
    [] kind = "CorrelationHeatmap" -> 6
    [] kind = "BoxPlot"            -> 7
    [] kind = "ViolinPlot"         -> 8
    [] kind = "DensityPlot"        -> 9
    [] kind = "ScatterMatrix"      -> 10
    [] kind = "LineChart"          -> 11
    [] kind = "PieChart"           -> 12
    [] kind = "Notes"              -> 13

\* C1: the pages appended so far always follow the fixed order Summary, stats
\* table (only when the table is non-empty), Missingness, Histograms,
\* Categorical bars, Correlation heatmap, Box, Violin, Density, Scatter matrix,
\* Line chart, Pie, Notes: the first page is the Summary, no page of a later
\* group precedes a page of an earlier one, a completed run ends with the Notes
\* page, and the pages a generator still has to render all belong to one group
\* that is not before any page already appended (stages do not overlap).
C1_PageOrder ==
  /\ \A k \in 1..(Len(pages) - 1) : KindRank(pages[k].kind) <= KindRank(pages[k + 1].kind)
  /\ pages # <<>> => pages[1].kind = "Summary"
  /\ \A k \in 2..Len(pages) : pages[k].kind # "Summary"
  /\ \A k \in 1..(Len(pages) - 1) : pages[k].kind # "Notes"
  /\ \A k \in 1..Len(pages) : pages[k].kind = "StatsTable" => (k = 2 /\ NumSet # {})
  /\ (Finished /\ ~exc) => pages[Len(pages)].kind = "Notes"
  /\ \A k \in 1..Len(todo) :
        /\ todo[k].kind = todo[1].kind
        /\ pages # <<>> => KindRank(pages[Len(pages)].kind) <= KindRank(todo[k].kind)

AllKinds ==
  {"Summary", "StatsTable", "Missingness", "Histogram", "CategoricalBar",
   "CorrelationHeatmap", "BoxPlot", "ViolinPlot", "DensityPlot", "ScatterMatrix",
   "LineChart", "PieChart", "Notes"}

\* a completed run whose document holds a page of every group
C1_Witness ==
  /\ Finished
  /\ ~exc
  /\ \A kind \in AllKinds : CountOf(kind) >= 1
  /\ CountOf("Histogram") > 1

\* C2 (as claimed): once the dataset has loaded, the document is finalized at
\* the output path if and only if no stage raised, and the exit status is 0 if
\* and only if no stage raised.
C2_Original ==
  (Loaded /\ Finished) =>
     /\ (outFile = "finalized") <=> ~exc
     /\ (exitCode = 0) <=> ~exc

\* C2 (amended): after a raise nothing more is appended and no figure is
\* created; the process ends with status 0 exactly when no stage raised, and
\* then the finalized document ends with the Notes page; when a stage raised
\* the status is nonzero and the document is still finalized, holding the pages
\* appended before the raise, unless the raise came before the sink was opened
\* (in the statistics computation), in which case no file exists.
C2_Finalization ==
  [][ /\ exc => (exc' /\ pages' = pages /\ fig' = fig)
      /\ (Loaded' /\ Finished') =>
           /\ (exitCode' = 0) <=> ~exc'
           /\ ~exc' => (outFile' = "finalized" /\ pages'[Len(pages')].kind = "Notes")
           /\ exc'  => /\ exitCode' = 1
                       /\ \A k \in 1..Len(pages') : pages'[k].kind # "Notes"
                       /\ (outFile' = "finalized") <=> (NumSet # {})'
                       /\ (outFile' = "absent") <=> (pages' = <<>>) ]_vars

\* a run that raised inside the with block and left a partial document
C2_Witness ==
  /\ Loaded
  /\ Finished
  /\ exc
  /\ exitCode = 1
  /\ outFile = "finalized"
  /\ Len(pages) >= 2

\* C3: detect_categoricals(df, max_unique) lists, in column order, exactly the
\* columns that are text or have at most max_unique distinct non-missing
\* values (so a column with exactly max_unique distinct values is listed and
\* one with max_unique + 1 is not), and the list is the same for the dataset
\* with its rows in reverse order.
ReverseRows(d) ==
  [rows |-> d.rows,
   cols |-> [i \in 1..Len(d.cols) |->
               [dtype |-> d.cols[i].dtype,
                vals  |-> [r \in 1..d.rows |-> d.cols[i].vals[d.rows + 1 - r]]]]]

MaxUniqueProbes == {0, 1, 2, 19, 20, 21}

C3_DetectCategoricals ==
  pc = "compute_basic_stats" =>
    LET reversed == ReverseRows(df)
    IN  \A m \in MaxUniqueProbes :
          LET cats == detect_categoricals(df, m)
          IN  /\ Increasing(cats)
              /\ SetOf(cats) = CatSetFor(m)
              /\ detect_categoricals(reversed, m) = cats

\* a dataset with a 20-valued numeric column (listed by default) and a
\* 21-valued one (not listed)
C3_Witness ==
  /\ pc = "compute_basic_stats"
  /\ \E i, j \in AllCols :
        /\ df.cols[i].dtype = "float64" /\ Distinct(i) = 20
        /\ df.cols[j].dtype = "float64" /\ Distinct(j) = 21
        /\ i \in SetOf(detect_categoricals(df, 20))
        /\ j \notin SetOf(detect_categoricals(df, 20))

\* C4 (as claimed): the columns eligible for the categorical generators and
\* those eligible for the numeric generators are disjoint and cover the dataset.
C4_Original ==
  pc = "compute_basic_stats" =>
    LET cat == SetOf(detect_categoricals(df, DefaultMaxUnique))
        num == SetOf(select_dtypes_number(df))
    IN  /\ cat \cap num = {}
        /\ cat \cup num = AllCols

\* C4 (amended): the two eligible sets cover the dataset, and a column is in
\* both exactly when it has a numeric dtype and at most 20 distinct
\* non-missing values.
C4_Classification ==
  pc = "compute_basic_stats" =>
    LET cat == SetOf(detect_categoricals(df, DefaultMaxUnique))
        num == SetOf(select_dtypes_number(df))
    IN  /\ cat \cup num = AllCols
        /\ cat \cap num = {i \in NumSet : Distinct(i) <= 20}

\* a dataset with a column in both sets, and another in only one of them
C4_Witness ==
  /\ pc = "compute_basic_stats"
  /\ LET cat == SetOf(detect_categoricals(df, DefaultMaxUnique))
         num == SetOf(select_dtypes_number(df))
     IN  /\ cat \cap num # {}
         /\ cat \cap num # cat \cup num
         /\ \E i \in AllCols : df.cols[i].dtype = "bool"

\* C5 (as claimed): compute_basic_stats returns (it does not raise), with
\* exactly one row per numeric-dtype column, in column order, whose missing
\* value is the number of missing cells of that column; with no numeric-dtype
\* column the table returned is empty.
StatsDone == Loaded /\ pc # "compute_basic_stats"
StatsRaised == StatsDone /\ exc /\ outFile = "absent"

C5_Claim ==
  StatsDone =>
    /\ ~StatsRaised
    /\ Len(desc) = NN
    /\ \A r \in 1..Len(desc) :
          /\ desc[r].col = Nth(NumSet, r)
          /\ desc[r].missing = df.rows - Cardinality(Present(desc[r].col))

\* The columns with at least one present cell among the first k of S, in order.
WithData(S, k) == SelectSeq(FirstOf(S, k), LAMBDA i : Present(i) # {})

\* What the generator at pc, about to return, must have appended, but for the
\* Density plots.
CountsButDensity ==
  /\ pc = "plot_missingness"         => CountOf("Missingness") = 1
  /\ pc = "plot_histograms"          => ColsOfKind("Histogram") = FirstOf(NumSet, 12)
  /\ pc = "plot_categorical_bars"    => ColsOfKind("CategoricalBar") = FirstOf(CatSet, 8)
  /\ pc = "plot_correlation_heatmap" =>
        CountOf("CorrelationHeatmap") = (IF NN >= 2 THEN 1 ELSE 0)
  /\ pc = "plot_boxplots"            => ColsOfKind("BoxPlot") = FirstOf(NumSet, 8)
  /\ pc = "plot_violinplots"         => ColsOfKind("ViolinPlot") = FirstOf(NumSet, 6)
  /\ pc = "plot_scatter_matrix"      =>
        CountOf("ScatterMatrix") = (IF NN >= 2 THEN 1 ELSE 0)
  /\ pc = "plot_line_charts"         => CountOf("LineChart") = (IF NN >= 1 THEN 1 ELSE 0)
  /\ pc = "plot_pie_charts"          => ColsOfKind("PieChart") = FirstOf(CatSet, 4)

Degenerate ==
  \/ NumSet = {}
  \/ CatSet = {}
  \/ NN < 2
  \/ df.rows = 0
  \/ \E i \in NumSet : Present(i) = {}

C7_Claim ==
  (Loaded /\ Finished /\ Degenerate) =>
     /\ ~exc
     /\ exitCode = 0
     /\ outFile = "finalized"
     /\ CountOf("Summary") = 1
     /\ CountOf("Notes") = 1

\* C8 (as claimed): at most one figure is open in any state, and no figure is
\* open once the step that created it has ended, whether it ended by appending
\* its page or by raising.
C8_Claim ==
  /\ fig <= 1
  /\ Returning => fig = 0
  /\ pc \in {"with_exit", "exit", "exited"} => fig = 0

====
